---- MODULE Spec2Model ----
(***************************************************************************)
(* yapper: weekly one-on-one pairings.                                     *)
(*   yapper.go            Config, determineValidPairings, pairPeople,      *)
(*                        getOrderedPossiblePairings, getIneligiblePeople, *)
(*                        GeneratePairings                                 *)
(*   history (package)    History.AddMeeting, GetPersonToLastMeetingMap,   *)
(*                        GetPeopleMetSortedByLastMeeting                  *)
(* IDs are opaque strings in the program; here they are small naturals.    *)
(* Timestamps are whole days counted from the Monday of ISO week 1 of      *)
(* 2026.  Go maps are functions whose DOMAIN is the key set; ranging over  *)
(* a Go map visits the keys in an unspecified order, which is a            *)
(* nondeterministic choice here.                                           *)
(***************************************************************************)
EXTENDS Integers, Sequences, FiniteSets, TLC

\* ------------------------------------------------------------------ bounds
\* IDs of the roster; the runs of one week use rosters of all of them
NumPeople == 4
\* the runs of several weeks use rosters of the first SmallRoster persons
SmallRoster == 3
MaxWeeks == 2
\* the long runs on an empty history
LongWeeks == 4
\* the history API on its own: number of calls, and the IDs 0..MaxClientID
MaxCalls == 3
MaxClientID == 2

\* --------------------------------------------------------------- constants
CadenceOneWeek == "one-week"
CadenceTwoWeeks == "two-weeks"

IDs == 1..NumPeople
\* an ID that is in no roster (a person deleted from the config)
Removed == 0
AllIDs == IDs \cup {Removed}

VARIABLES
    pc,                 \* position of GeneratePairings / of the history client
    config,             \* Config.People: sequence of Person
    weeks,              \* the weeks argument of GeneratePairings
    hist,               \* History: [isNil, data], data: ID -> (ID -> time)
    hist0,              \* the history the run was started on
    date,               \* GeneratePairings' date
    date0,              \* the value time.Now() returned
    idToValidPairings,  \* map ID -> sequence of ID
    weeklyPairings,     \* sequence of Pairings.data, one per finished week
    pairings,           \* Pairings.data of the pairPeople call in progress
    alreadyPaired,      \* pairPeople's alreadyPaired (only membership is read)
    visited,            \* keys the range loop of pairPeople has yielded so far
    lastVisit,          \* what the latest iteration of that loop saw and did
    lastCall,           \* the latest call of the history API and its result
    calls,              \* number of calls of the history API so far
    args,               \* the command line as flag parsing sees it
    configFile,         \* the document at the -config path, or NoFile
    historyFile,        \* the document at the -history path, or NoFile
    pairingsFile,       \* the document a Pairings was exported to, or NoFile
    exitCode            \* <<status>> once execute has returned, <<>> before

vars == <<pc, config, weeks, hist, hist0, date, date0, idToValidPairings,
          weeklyPairings, pairings, alreadyPaired, visited, lastVisit, lastCall, calls,
          args, configFile, historyFile, pairingsFile, exitCode>>

\* what a call of GeneratePairings never touches (its arguments, the command
\* line and the files), and what pairPeople works on
inputVars == <<config, weeks, hist0, args, configFile, historyFile, pairingsFile, exitCode>>
weekVars == <<pairings, alreadyPaired, visited, lastVisit>>
clientVars == <<lastCall, calls>>

\* ----------------------------------------------------------- Go map helpers
EmptyMap == [x \in {} |-> 0]

Put(m, k, v) == [x \in (DOMAIN m) \cup {k} |-> IF x = k THEN v ELSE m[x]]

Range(s) == {s[i] : i \in 1..Len(s)}

\* slices.Contains
Contains(s, x) == \E i \in 1..Len(s) : s[i] = x

\* every order in which ranging over a map with key set S can yield the keys
Orders(S) == {s \in [1..Cardinality(S) -> S] : \A i, j \in 1..Cardinality(S) : s[i] = s[j] => i = j}

\* ------------------------------------------------------------------ Config
NoPerson == [id |-> Removed, denyList |-> {}, cadence |-> "", squad |-> ""]

\* IndexOfID when the search starts at the second person
IndexOfID_SkipsFirst(people, id) ==
    IF \E i \in 2..Len(people) : people[i].id = id
    THEN CHOOSE i \in 2..Len(people) :
            /\ people[i].id = id
            /\ \A j \in 2..(i - 1) : people[j].id # id
    ELSE 0

\* slices.IndexFunc: the first index whose person has the ID, 0 when none
IndexOfID(people, id) ==
    IF \E i \in 1..Len(people) : people[i].id = id
    THEN CHOOSE i \in 1..Len(people) :
            /\ people[i].id = id
            /\ \A j \in 1..(i - 1) : people[j].id # id
    ELSE 0

\* GetPerson when a missing person is no error
GetPerson_NoError(people, id) ==
    LET index == IndexOfID(people, id)
    IN  IF index = 0
        THEN [person |-> NoPerson, err |-> FALSE]
        ELSE [person |-> people[index], err |-> FALSE]

GetPerson(people, id) ==
    LET index == IndexOfID(people, id)
    IN  IF index = 0
        THEN [person |-> NoPerson, err |-> TRUE]
        ELSE [person |-> people[index], err |-> FALSE]

\* Config.validate: an error exactly when an ID occurs twice
validate(people) ==
    \E i, j \in 1..Len(people) : i < j /\ people[i].id = people[j].id

\* ------------------------------------------------- determineValidPairings
\* SkipsPair when only the person's own deny list is consulted
SkipsPair_OwnDenyListOnly(person, potentialPair) ==
    \/ person.id = potentialPair.id
    \/ potentialPair.id \in person.denyList
    \/ (person.squad # "" /\ person.squad = potentialPair.squad)

\* SkipsPair when two unset squads count as the same squad
SkipsPair_AnySameSquad(person, potentialPair) ==
    \/ person.id = potentialPair.id
    \/ potentialPair.id \in person.denyList
    \/ person.id \in potentialPair.denyList
    \/ person.squad = potentialPair.squad

\* SkipsPair when the squads are not compared
SkipsPair_IgnoresSquad(person, potentialPair) ==
    \/ person.id = potentialPair.id
    \/ potentialPair.id \in person.denyList
    \/ person.id \in potentialPair.denyList

\* SkipsPair when a person is not told apart from themselves
SkipsPair_AllowsSelf(person, potentialPair) ==
    \/ potentialPair.id \in person.denyList
    \/ person.id \in potentialPair.denyList
    \/ (person.squad # "" /\ person.squad = potentialPair.squad)

\* the two `continue` conditions of the inner loop
SkipsPair(person, potentialPair) ==
    \/ person.id = potentialPair.id
    \/ potentialPair.id \in person.denyList
    \/ person.id \in potentialPair.denyList
    \/ (person.squad # "" /\ person.squad = potentialPair.squad)

RECURSIVE InnerLoop(_, _, _, _)
InnerLoop(people, person, j, m) ==
    IF j > Len(people) THEN m
    ELSE IF SkipsPair(person, people[j])
         THEN InnerLoop(people, person, j + 1, m)
         ELSE LET old == IF person.id \in DOMAIN m THEN m[person.id] ELSE <<>>
              IN  InnerLoop(people, person, j + 1,
                            Put(m, person.id, Append(old, people[j].id)))

RECURSIVE OuterLoop(_, _, _)
OuterLoop(people, i, m) ==
    IF i > Len(people) THEN m
    ELSE OuterLoop(people, i + 1, InnerLoop(people, people[i], 1, m))

determineValidPairings(people) == OuterLoop(people, 1, EmptyMap)

\* ----------------------------------------------------------------- History
NilHistory == [isNil |-> TRUE, data |-> EmptyMap]

\* reading h.data[person] of a nil or non-nil map
GetPersonToLastMeetingMap(h, person) ==
    IF person \in DOMAIN h.data THEN h.data[person] ELSE EmptyMap

\* addMeetingToPersonsHistory when a newly made partner map is not stored
addMeetingToPersonsHistory_NoStore(h, person, otherPerson, meetingTime) ==
    IF person \in DOMAIN h.data
    THEN [h EXCEPT !.data = Put(h.data, person, Put(h.data[person], otherPerson, meetingTime))]
    ELSE h

\* addMeetingToPersonsHistory when the partner map is always made anew
addMeetingToPersonsHistory_FreshMap(h, person, otherPerson, meetingTime) ==
    [h EXCEPT !.data = Put(h.data, person, Put(EmptyMap, otherPerson, meetingTime))]

\* addMeetingToPersonsHistory when an entry that exists is not overwritten
addMeetingToPersonsHistory_KeepsFirst(h, person, otherPerson, meetingTime) ==
    LET personHistory == IF person \in DOMAIN h.data THEN h.data[person] ELSE EmptyMap
    IN  IF otherPerson \in DOMAIN personHistory
        THEN [h EXCEPT !.data = Put(h.data, person, personHistory)]
        ELSE [h EXCEPT !.data = Put(h.data, person, Put(personHistory, otherPerson, meetingTime))]

addMeetingToPersonsHistory(h, person, otherPerson, meetingTime) ==
    LET personHistory == IF person \in DOMAIN h.data THEN h.data[person] ELSE EmptyMap
    IN  [h EXCEPT !.data = Put(h.data, person, Put(personHistory, otherPerson, meetingTime))]

\* AddMeeting when only the first person's partner map is updated
AddMeeting_OneWay(h, person1, person2, meetingTime) ==
    LET h0 == IF h.isNil THEN [isNil |-> FALSE, data |-> EmptyMap] ELSE h
    IN  [h0 EXCEPT !.data =
            Put(h0.data, person1,
                Put(IF person1 \in DOMAIN h0.data THEN h0.data[person1] ELSE EmptyMap,
                    person2, meetingTime))]

AddMeeting(h, person1, person2, meetingTime) ==
    LET h0 == IF h.isNil THEN [isNil |-> FALSE, data |-> EmptyMap] ELSE h
        h1 == addMeetingToPersonsHistory(h0, person1, person2, meetingTime)
    IN  addMeetingToPersonsHistory(h1, person2, person1, meetingTime)

\* InsertIndex with the comparison turned round: the latest meeting first
RECURSIVE InsertIndex_NewestFirst(_, _, _, _)
InsertIndex_NewestFirst(peopleToTime, sortedPeople, meetingTime, k) ==
    IF k > Len(sortedPeople) THEN k - 1
    ELSE IF meetingTime > peopleToTime[sortedPeople[k]] THEN k - 1
         ELSE InsertIndex_NewestFirst(peopleToTime, sortedPeople, meetingTime, k + 1)

\* the inner loop of GetPeopleMetSortedByLastMeeting: the insertion index
RECURSIVE InsertIndex(_, _, _, _)
InsertIndex(peopleToTime, sortedPeople, meetingTime, k) ==
    IF k > Len(sortedPeople) THEN k - 1
    ELSE IF meetingTime < peopleToTime[sortedPeople[k]] THEN k - 1
         ELSE InsertIndex(peopleToTime, sortedPeople, meetingTime, k + 1)

\* Insert when the index is ignored and the person is appended
Insert_AtEnd(s, index, p) == Append(s, p)

\* slices.Insert(s, index, p), index counted from 0
Insert(s, index, p) == SubSeq(s, 1, index) \o <<p>> \o SubSeq(s, index + 1, Len(s))

RECURSIVE SortLoop(_, _, _, _)
SortLoop(peopleToTime, order, n, sortedPeople) ==
    IF n > Len(order) THEN sortedPeople
    ELSE LET p == order[n]
             index == InsertIndex(peopleToTime, sortedPeople, peopleToTime[p], 1)
         IN  SortLoop(peopleToTime, order, n + 1, Insert(sortedPeople, index, p))

\* every slice GetPeopleMetSortedByLastMeeting can return: one per order in
\* which the range over the person's map yields its keys
GetPeopleMetSortedByLastMeeting(h, person) ==
    LET peopleToTime == GetPersonToLastMeetingMap(h, person)
    IN  {SortLoop(peopleToTime, order, 1, <<>>) : order \in Orders(DOMAIN peopleToTime)}

\* ------------------------------------------------------------------ inputs
\* the values time.Now() takes: Monday of 2026-W03 (odd), and Thursday of
\* 2026-W52 (even), from where a run crosses 2026-W53 into 2027-W01
StartDates == {14, 360}

Person(i, deny, cad, sq) == [id |-> i, denyList |-> deny, cadence |-> cad, squad |-> sq]

NextID(i) == (i % NumPeople) + 1

\* the person records a roster is made of: nothing set, a deny-list entry with
\* the explicit weekly cadence, a squad, the two-weeks cadence
Profiles(i) ==
    { Person(i, {}, "", ""),
      Person(i, {NextID(i)}, CadenceOneWeek, ""),
      Person(i, {}, "", "bros"),
      Person(i, {}, CadenceTwoWeeks, "") }

\* rosters with unique IDs: person i is the i-th entry; the first n persons
RECURSIVE RostersOfSize(_)
RostersOfSize(n) ==
    IF n = 0 THEN {<<>>}
    ELSE {Append(r, p) : r \in RostersOfSize(n - 1), p \in Profiles(n)}

Rosters == RostersOfSize(NumPeople)

PrevID(i) == ((i + NumPeople - 2) % NumPeople) + 1

\* rosters for the valid-pair graph alone: no deny-list entry or one, for the
\* next or the previous person; no squad or one of two; cadence plays no part
GraphProfiles(i) ==
    { Person(i, deny, "", sq) : deny \in {{}, {NextID(i)}, {PrevID(i)}},
                                sq \in {"", "bros", "koopas"} }

RECURSIVE GraphRostersOfSize(_)
GraphRostersOfSize(n) ==
    IF n = 0 THEN {<<>>}
    ELSE {Append(r, p) : r \in GraphRostersOfSize(n - 1), p \in GraphProfiles(n)}

GraphRosters == GraphRostersOfSize(NumPeople)

\* a history holding the given meetings <<person1, person2, time>>
RECURSIVE HistoryOf(_, _)
HistoryOf(ms, k) ==
    IF k = 0 THEN NilHistory
    ELSE AddMeeting(HistoryOf(ms, k - 1), ms[k][1], ms[k][2], ms[k][3])

\* the history file of earlier runs, all meetings before any start: missing;
\* two meetings of person 1 at different times, the later one listed first;
\* a meeting with the removed person and one of a person with themselves.
\* Whether 1 may meet 2 or 3 depends on the roster.
InitialHistories ==
    { NilHistory,
      HistoryOf(<< <<1, 2, 3>>, <<1, 3, 0>> >>, 2),
      HistoryOf(<< <<1, Removed, 0>>, <<2, 2, 3>> >>, 2) }

\* -------------------------------------------------------------- eligibility
\* time.Time.ISOWeek for a day count: 52 or 53 weeks per ISO year
DayOfDec31(y) == (y + (y \div 4) - (y \div 100) + (y \div 400)) % 7

WeeksInYear(y) == IF DayOfDec31(y) = 4 \/ DayOfDec31(y - 1) = 3 THEN 53 ELSE 52

RECURSIVE ISOWeekFrom(_, _)
ISOWeekFrom(y, d) ==
    IF d < 7 * WeeksInYear(y)
    THEN [year |-> y, week |-> (d \div 7) + 1]
    ELSE ISOWeekFrom(y + 1, d - 7 * WeeksInYear(y))

ISOWeek(t) == ISOWeekFrom(2026, t)

\* isValidWeekForTwoWeekCadence with the parity turned round
isValidWeekForTwoWeekCadence_Odd(t) == (ISOWeek(t).week % 2) = 1

isValidWeekForTwoWeekCadence(t) == (ISOWeek(t).week % 2) = 0

\* getIneligiblePeople when the cadence of a person is looked at only in a
\* week that is not valid for the two-weeks cadence
getIneligiblePeople_LooksOnOddWeeks(people, validMap, t) ==
    LET twoWeekValid == isValidWeekForTwoWeekCadence(t)
        Cad(id) == GetPerson(people, id).person.cadence
        fatal == \E id \in DOMAIN validMap :
                    \/ GetPerson(people, id).err
                    \/ (~twoWeekValid /\ Cad(id) \notin {CadenceOneWeek, "", CadenceTwoWeeks})
    IN  [fatal |-> fatal,
         ineligible |-> {id \in DOMAIN validMap :
                            Cad(id) = CadenceTwoWeeks /\ ~twoWeekValid}]

\* getIneligiblePeople: log.Fatalf ends the process, whatever key the range
\* reaches first; otherwise the slice is only ever searched, so it is a set
getIneligiblePeople(people, validMap, t) ==
    LET twoWeekValid == isValidWeekForTwoWeekCadence(t)
        Cad(id) == GetPerson(people, id).person.cadence
        fatal == \E id \in DOMAIN validMap :
                    \/ GetPerson(people, id).err
                    \/ Cad(id) \notin {CadenceOneWeek, "", CadenceTwoWeeks}
    IN  [fatal |-> fatal,
         ineligible |-> {id \in DOMAIN validMap :
                            Cad(id) = CadenceTwoWeeks /\ ~twoWeekValid}]

\* ------------------------------------------------------------------ matcher
\* getPeopleNotMetBefore when the unmet people come out last-listed first
getPeopleNotMetBefore_Reversed(validPairings, previousPairings) ==
    LET unmetPeople == SelectSeq(validPairings, LAMBDA id : ~Contains(previousPairings, id))
    IN  [i \in 1..Len(unmetPeople) |-> unmetPeople[Len(unmetPeople) + 1 - i]]

getPeopleNotMetBefore(validPairings, previousPairings) ==
    SelectSeq(validPairings, LAMBDA id : ~Contains(previousPairings, id))

\* getOrderedPossiblePairings when the met people are not checked against the
\* valid pairings
getOrderedPossiblePairings_Unfiltered(validPairings, previousMeetingsOldestFirst) ==
    SelectSeq(validPairings, LAMBDA id : ~Contains(previousMeetingsOldestFirst, id))
        \o previousMeetingsOldestFirst

\* getOrderedPossiblePairings when only the people not met before are listed
getOrderedPossiblePairings_UnmetOnly(validPairings, previousMeetingsOldestFirst) ==
    getPeopleNotMetBefore(validPairings, previousMeetingsOldestFirst)

getOrderedPossiblePairings(validPairings, previousMeetingsOldestFirst) ==
    getPeopleNotMetBefore(validPairings, previousMeetingsOldestFirst)
        \o SelectSeq(previousMeetingsOldestFirst, LAMBDA prevID : Contains(validPairings, prevID))

\* Unclaimed when the claimed candidates are not skipped
Unclaimed_KeepsClaimed(orderedPossiblePairings, claimed) == orderedPossiblePairings

\* the inner loop of pairPeople skips the claimed candidates; the head of what
\* is left is the partner
Unclaimed(orderedPossiblePairings, claimed) ==
    SelectSeq(orderedPossiblePairings, LAMBDA pair : pair \notin claimed)

\* the body of the range loop of pairPeople for key id, when the person's
\* history was returned in the order previousMeetingsOldestFirst;
\* st = [pairings, alreadyPaired]
PairStep(st, id, validPairings, previousMeetingsOldestFirst) ==
    IF id \in st.alreadyPaired THEN st
    ELSE LET rest == Unclaimed(getOrderedPossiblePairings(validPairings, previousMeetingsOldestFirst),
                               st.alreadyPaired)
         IN  IF rest = <<>> THEN st
             ELSE [pairings |-> Append(st.pairings, <<id, Head(rest)>>),
                   alreadyPaired |-> st.alreadyPaired \cup {id, Head(rest)}]

\* the range loop of pairPeople when the map yields its keys in `order`: every
\* Pairings.data it can end with
RECURSIVE PairLoop(_, _, _, _, _)
PairLoop(validMap, h, order, k, st) ==
    IF k > Len(order) THEN {st.pairings}
    ELSE UNION { PairLoop(validMap, h, order, k + 1, PairStep(st, order[k], validMap[order[k]], prev)) :
                    prev \in GetPeopleMetSortedByLastMeeting(h, order[k]) }

\* every Pairings.data a call of pairPeople can return (when it does not abort)
pairPeople(people, validMap, h, t) ==
    UNION { PairLoop(validMap, h, order, 1,
                     [pairings |-> <<>>,
                      alreadyPaired |-> getIneligiblePeople(people, validMap, t).ineligible]) :
                order \in Orders(DOMAIN validMap) }

\* AddMeetings when the week's pairs are not fed into the history
AddMeetings_None(h, prs, k, t) == h

\* the AddMeeting loop of GeneratePairings over one week's pairings
RECURSIVE AddMeetings(_, _, _, _)
AddMeetings(h, prs, k, t) ==
    IF k > Len(prs) THEN h
    ELSE AddMeetings(AddMeeting(h, prs[k][1], prs[k][2], t), prs, k + 1, t)

NoVisit == [id |-> Removed, skipped |-> TRUE, claimed |-> {}, valid |-> <<>>,
            prev |-> <<>>, candidates |-> <<>>, paired |-> FALSE, partner |-> Removed]

NilPairings == [isNil |-> TRUE, data |-> <<>>]

NoCall == [op |-> "none", person1 |-> Removed, person2 |-> Removed, meetingTime |-> 0,
           before |-> NilHistory, resultMap |-> EmptyMap, resultSlice |-> <<>>,
           resultPerson |-> NoPerson, resultPairings |-> NilPairings,
           err |-> FALSE, ioErr |-> FALSE]

\* no file at the path
NoFile == [kind |-> "missing", value |-> <<>>]

\* flag parsing of an empty command line: -weeks defaults to 1
NoArgs == [parseErr |-> FALSE, weeks |-> 1]

\* the library is called directly: no command line, no files, no exit status
NoCommand ==
    /\ args = NoArgs
    /\ configFile = NoFile
    /\ historyFile = NoFile
    /\ pairingsFile = NoFile
    /\ exitCode = <<>>

\* ------------------------------------------------------- GeneratePairings
\* lines 131-133
Start ==
    /\ pc = "start"
    /\ \E now \in StartDates :
        /\ date' = now
        /\ date0' = now
    /\ idToValidPairings' = determineValidPairings(config)
    /\ weeklyPairings' = <<>>
    /\ pc' = "loop"
    /\ UNCHANGED <<inputVars, hist, weekVars, clientVars>>

\* the next iteration of `for range weeks`: pairPeople up to its range loop
BeginWeek ==
    /\ pc = "loop"
    /\ Len(weeklyPairings) < weeks
    /\ LET r == getIneligiblePeople(config, idToValidPairings, date)
       IN  IF r.fatal
           THEN /\ pc' = "fatal"
                /\ UNCHANGED <<pairings, alreadyPaired, visited>>
           ELSE /\ pc' = "pairing"
                /\ pairings' = <<>>
                /\ alreadyPaired' = r.ineligible
                /\ visited' = {}
    /\ lastVisit' = NoVisit
    /\ UNCHANGED <<inputVars, hist, date, date0, idToValidPairings, weeklyPairings, clientVars>>

\* Visit when a pair is fed into the history as soon as it is formed
Visit_RecordsAtOnce(id) ==
    /\ pc = "pairing"
    /\ id \in (DOMAIN idToValidPairings) \ visited
    /\ visited' = visited \cup {id}
    /\ \E prev \in (IF id \in alreadyPaired THEN {<<>>}
                    ELSE GetPeopleMetSortedByLastMeeting(hist, id)) :
          LET validPairings == idToValidPairings[id]
              st == PairStep([pairings |-> pairings, alreadyPaired |-> alreadyPaired],
                             id, validPairings, prev)
              isPaired == Len(st.pairings) > Len(pairings)
          IN  /\ pairings' = st.pairings
              /\ alreadyPaired' = st.alreadyPaired
              /\ hist' = AddMeetings(hist, st.pairings, 1, date)
              /\ lastVisit' =
                    [id |-> id,
                     skipped |-> id \in alreadyPaired,
                     claimed |-> alreadyPaired,
                     valid |-> validPairings,
                     prev |-> prev,
                     candidates |-> IF id \in alreadyPaired THEN <<>>
                                    ELSE getOrderedPossiblePairings(validPairings, prev),
                     paired |-> isPaired,
                     partner |-> IF isPaired THEN st.pairings[Len(st.pairings)][2] ELSE Removed]
    /\ UNCHANGED <<pc, inputVars, date, date0, idToValidPairings, weeklyPairings, clientVars>>

\* one iteration of the range loop of pairPeople, for whichever key the map
\* yields next
Visit(id) ==
    /\ pc = "pairing"
    /\ id \in (DOMAIN idToValidPairings) \ visited
    /\ visited' = visited \cup {id}
    /\ \E prev \in (IF id \in alreadyPaired THEN {<<>>}
                    ELSE GetPeopleMetSortedByLastMeeting(hist, id)) :
          LET validPairings == idToValidPairings[id]
              st == PairStep([pairings |-> pairings, alreadyPaired |-> alreadyPaired],
                             id, validPairings, prev)
              isPaired == Len(st.pairings) > Len(pairings)
          IN  /\ pairings' = st.pairings
              /\ alreadyPaired' = st.alreadyPaired
              /\ lastVisit' =
                    [id |-> id,
                     skipped |-> id \in alreadyPaired,
                     claimed |-> alreadyPaired,
                     valid |-> validPairings,
                     prev |-> prev,
                     candidates |-> IF id \in alreadyPaired THEN <<>>
                                    ELSE getOrderedPossiblePairings(validPairings, prev),
                     paired |-> isPaired,
                     partner |-> IF isPaired THEN st.pairings[Len(st.pairings)][2] ELSE Removed]
    /\ UNCHANGED <<pc, inputVars, hist, date, date0, idToValidPairings, weeklyPairings, clientVars>>

\* pairPeople returns; GeneratePairings lines 138-147
EndWeek ==
    /\ pc = "pairing"
    /\ visited = DOMAIN idToValidPairings
    /\ hist' = AddMeetings(hist, pairings, 1, date)
    /\ weeklyPairings' = Append(weeklyPairings, pairings)
    /\ date' = date + 7
    /\ pc' = "loop"
    /\ UNCHANGED <<inputVars, date0, idToValidPairings, weekVars, clientVars>>

\* GeneratePairings line 150
Return ==
    /\ pc = "loop"
    /\ Len(weeklyPairings) >= weeks
    /\ pc' = "done"
    /\ UNCHANGED <<inputVars, hist, date, date0, idToValidPairings, weeklyPairings,
                   weekVars, clientVars>>

Next ==
    \/ Start
    \/ BeginWeek
    \/ \E id \in IDs : Visit(id)
    \/ EndWeek
    \/ Return

InitRun(people, h, n) ==
    /\ pc = "start"
    /\ config = people
    /\ weeks = n
    /\ hist = h
    /\ hist0 = h
    /\ date = 0
    /\ date0 = 0
    /\ idToValidPairings = EmptyMap
    /\ weeklyPairings = <<>>
    /\ pairings = <<>>
    /\ alreadyPaired = {}
    /\ visited = {}
    /\ lastVisit = NoVisit
    /\ lastCall = NoCall
    /\ calls = 0
    /\ NoCommand

\* a run of GeneratePairings on any small roster, history file and week count
Init ==
    \E people \in RostersOfSize(SmallRoster), h \in InitialHistories, n \in 0..MaxWeeks :
        InitRun(people, h, n)

Spec == Init /\ [][Next]_vars

\* the runs of Spec that are asked for the largest number of weeks
InitFullRun ==
    \E people \in RostersOfSize(SmallRoster), h \in InitialHistories :
        InitRun(people, h, MaxWeeks)

SpecFullRun == InitFullRun /\ [][Next]_vars

\* rosters of the first n persons where a person has nothing set or the
\* two-weeks cadence
RECURSIVE CadenceRostersOfSize(_)
CadenceRostersOfSize(n) ==
    IF n = 0 THEN {<<>>}
    ELSE {Append(r, p) : r \in CadenceRostersOfSize(n - 1),
                         p \in {Person(n, {}, "", ""), Person(n, {}, CadenceTwoWeeks, "")}}

\* runs on those rosters, from no history file or one that holds meetings,
\* where the sequential program always takes its next step
InitFair ==
    \E people \in CadenceRostersOfSize(SmallRoster),
       h \in {NilHistory, HistoryOf(<< <<1, 2, 3>>, <<1, 3, 0>> >>, 2)},
       n \in 0..MaxWeeks :
        InitRun(people, h, n)

SpecFair == InitFair /\ [][Next]_vars /\ WF_vars(Next)

\* one call of pairPeople (a run of one week) on any full roster and a wider
\* choice of history files: also two or three partners of one person, some of
\* them met at the same time, and meetings of several persons
WeekHistories ==
    InitialHistories
    \cup { HistoryOf(<< <<1, 2, 0>>, <<1, 3, 0>> >>, 2),
           HistoryOf(<< <<1, 2, 3>>, <<1, 3, 0>>, <<1, 4, 3>> >>, 3),
           HistoryOf(<< <<1, 2, 0>>, <<3, 4, 3>>, <<2, 3, 3>> >>, 3) }

InitWeek == \E people \in Rosters, h \in WeekHistories : InitRun(people, h, 1)

SpecWeek == InitWeek /\ [][Next]_vars

\* one call of pairPeople on any full roster and an empty history
InitGreedy == \E people \in Rosters : InitRun(people, NilHistory, 1)

SpecGreedy == InitGreedy /\ [][Next]_vars

\* long runs from an empty history
InitLong == \E people \in RostersOfSize(SmallRoster) : InitRun(people, NilHistory, LongWeeks)

SpecLong == InitLong /\ [][Next]_vars

\* the valid-pair graph of every roster: GeneratePairings with weeks = 0
InitGraph == \E people \in GraphRosters : InitRun(people, NilHistory, 0)

NextGraph ==
    \/ Start
    \/ Return

SpecGraph == InitGraph /\ [][NextGraph]_vars

\* ------------------------------------------------------ the history package
ClientIDs == 0..MaxClientID
ClientTimes == {0, 3, 7}

CallAddMeeting(person1, person2, meetingTime) ==
    /\ pc = "client"
    /\ calls < MaxCalls
    /\ hist' = AddMeeting(hist, person1, person2, meetingTime)
    /\ lastCall' = [NoCall EXCEPT !.op = "AddMeeting", !.person1 = person1,
                                  !.person2 = person2, !.meetingTime = meetingTime,
                                  !.before = hist]
    /\ calls' = calls + 1
    /\ UNCHANGED <<pc, inputVars, date, date0, idToValidPairings, weeklyPairings, weekVars>>

\* CallGetPersonToLastMeetingMap when the lookup makes a partner map for a
\* person that has none
CallGetPersonToLastMeetingMap_Creates(person) ==
    /\ pc = "client"
    /\ calls < MaxCalls
    /\ hist' = IF person \in DOMAIN hist.data THEN hist
               ELSE [isNil |-> FALSE, data |-> Put(hist.data, person, EmptyMap)]
    /\ lastCall' = [NoCall EXCEPT !.op = "GetPersonToLastMeetingMap", !.person1 = person,
                                  !.before = hist,
                                  !.resultMap = GetPersonToLastMeetingMap(hist, person)]
    /\ calls' = calls + 1
    /\ UNCHANGED <<pc, inputVars, date, date0, idToValidPairings, weeklyPairings, weekVars>>

CallGetPersonToLastMeetingMap(person) ==
    /\ pc = "client"
    /\ calls < MaxCalls
    /\ lastCall' = [NoCall EXCEPT !.op = "GetPersonToLastMeetingMap", !.person1 = person,
                                  !.before = hist,
                                  !.resultMap = GetPersonToLastMeetingMap(hist, person)]
    /\ calls' = calls + 1
    /\ UNCHANGED <<pc, inputVars, hist, date, date0, idToValidPairings, weeklyPairings, weekVars>>

CallGetPeopleMetSortedByLastMeeting(person) ==
    /\ pc = "client"
    /\ calls < MaxCalls
    /\ \E sortedPeople \in GetPeopleMetSortedByLastMeeting(hist, person) :
          lastCall' = [NoCall EXCEPT !.op = "GetPeopleMetSortedByLastMeeting",
                                     !.person1 = person, !.before = hist,
                                     !.resultSlice = sortedPeople]
    /\ calls' = calls + 1
    /\ UNCHANGED <<pc, inputVars, hist, date, date0, idToValidPairings, weeklyPairings, weekVars>>

NextHistory ==
    \/ \E a, b \in ClientIDs, t \in ClientTimes : CallAddMeeting(a, b, t)
    \/ \E a \in ClientIDs : CallGetPersonToLastMeetingMap(a)
    \/ \E a \in ClientIDs : CallGetPeopleMetSortedByLastMeeting(a)

\* a zero History, one decoded from an empty document, one holding a meeting
ClientHistories ==
    { NilHistory,
      [isNil |-> FALSE, data |-> EmptyMap],
      [isNil |-> FALSE, data |-> (1 :> (2 :> 3)) @@ (2 :> (1 :> 3))] }

InitHistory ==
    /\ pc = "client"
    /\ config = <<>>
    /\ weeks = 0
    /\ hist \in ClientHistories
    /\ hist0 = hist
    /\ date = 0
    /\ date0 = 0
    /\ idToValidPairings = EmptyMap
    /\ weeklyPairings = <<>>
    /\ pairings = <<>>
    /\ alreadyPaired = {}
    /\ visited = {}
    /\ lastVisit = NoVisit
    /\ lastCall = NoCall
    /\ calls = 0
    /\ NoCommand

SpecHistory == InitHistory /\ [][NextHistory]_vars

\* ----------------------------------------------------------- JSON documents
\* What encoding/json writes and reads: null for a nil map or slice, an array
\* as a sequence, an object as the sequence of its members ordered by key, a
\* time as the text of its calendar date (year, day of the year).
JSON(v) == [kind |-> "json", value |-> v]

JSONNull == [kind |-> "null", value |-> <<>>]

\* text that does not decode: not JSON, of another shape, empty or cut off
Garbage == [kind |-> "garbage", value |-> <<>>]

\* a file that exists and cannot be opened
Unreadable == [kind |-> "unreadable", value |-> <<>>]

IsLeap(y) == (y % 4 = 0 /\ y % 100 # 0) \/ y % 400 = 0

DaysInYear(y) == IF IsLeap(y) THEN 366 ELSE 365

RECURSIVE DateFrom(_, _)
DateFrom(y, d) ==
    IF d <= DaysInYear(y) THEN [year |-> y, yday |-> d]
    ELSE DateFrom(y + 1, d - DaysInYear(y))

\* time.Time.MarshalJSON: day 0 is 2025-12-29, the 363rd day of 2025
FormatTime(t) == DateFrom(2025, t + 363)

RECURSIVE DaysBeforeYear(_)
DaysBeforeYear(y) ==
    IF y <= 2025 THEN 0 ELSE DaysInYear(y - 1) + DaysBeforeYear(y - 1)

\* ParseTime when the year of the text is not read
ParseTime_IgnoresYear(text) == text.yday - 363

\* time.Time.UnmarshalJSON
ParseTime(text) == DaysBeforeYear(text.year) + text.yday - 363

\* json.Marshal writes the members of a map ordered by key
RECURSIVE SortedKeys(_)
SortedKeys(S) ==
    IF S = {} THEN <<>>
    ELSE LET k == CHOOSE x \in S : \A y \in S : x <= y
         IN  <<k>> \o SortedKeys(S \ {k})

MarshalTimes(m) ==
    LET keys == SortedKeys(DOMAIN m)
    IN  [i \in 1..Len(keys) |-> [key |-> keys[i], value |-> FormatTime(m[keys[i]])]]

MarshalData(data) ==
    LET keys == SortedKeys(DOMAIN data)
    IN  [i \in 1..Len(keys) |-> [key |-> keys[i], value |-> MarshalTimes(data[keys[i]])]]

\* History.Export: json.Marshal(h.data)
HistoryExport(h) == IF h.isNil THEN JSONNull ELSE JSON(MarshalData(h.data))

RECURSIVE UnmarshalTimes(_, _)
UnmarshalTimes(members, k) ==
    IF k = 0 THEN EmptyMap
    ELSE Put(UnmarshalTimes(members, k - 1), members[k].key, ParseTime(members[k].value))

RECURSIVE UnmarshalData(_, _)
UnmarshalData(members, k) ==
    IF k = 0 THEN EmptyMap
    ELSE Put(UnmarshalData(members, k - 1), members[k].key,
             UnmarshalTimes(members[k].value, Len(members[k].value)))

\* NewHistoryFromFile: Decode into the nil map of a zero History; null leaves
\* it nil
NewHistoryFromFile(reader) ==
    IF reader.kind = "null" THEN [history |-> NilHistory, err |-> FALSE]
    ELSE IF reader.kind = "json"
         THEN [history |-> [isNil |-> FALSE,
                            data |-> UnmarshalData(reader.value, Len(reader.value))],
               err |-> FALSE]
         ELSE [history |-> NilHistory, err |-> TRUE]

\* Pairings.Add
Add(p, id1, id2) == [isNil |-> FALSE, data |-> Append(p.data, <<id1, id2>>)]

\* Pairings.Export: json.Marshal(p.data)
PairingsExport(p) ==
    IF p.isNil THEN JSONNull
    ELSE JSON([i \in 1..Len(p.data) |-> <<p.data[i][1], p.data[i][2]>>])

\* NewPairingsFromFile: os.Open, then Decode into a nil slice
NewPairingsFromFile(file) ==
    IF file.kind = "null" THEN [pairings |-> NilPairings, err |-> FALSE]
    ELSE IF file.kind = "json"
         THEN [pairings |-> [isNil |-> FALSE,
                             data |-> [i \in 1..Len(file.value) |->
                                          <<file.value[i][1], file.value[i][2]>>]],
               err |-> FALSE]
         ELSE [pairings |-> NilPairings, err |-> TRUE]

\* --------------------------------------------- exporting and re-importing
\* the Pairings a caller can hold: the zero value, one decoded from an empty
\* array, and those built by one or two calls of Add
RECURSIVE PairingsOfLen(_)
PairingsOfLen(n) ==
    IF n = 0 THEN {NilPairings}
    ELSE {Add(p, id1, id2) : p \in PairingsOfLen(n - 1), id1 \in 1..MaxClientID, id2 \in 1..MaxClientID}

PairingsValues ==
    PairingsOfLen(0) \cup PairingsOfLen(1) \cup PairingsOfLen(2)
        \cup {[isNil |-> FALSE, data |-> <<>>]}

\* the histories a caller can hold
FileHistories == ClientHistories \cup WeekHistories

CallPairingsExport(p) ==
    /\ pc = "files"
    /\ pairingsFile' = PairingsExport(p)
    /\ lastCall' = [NoCall EXCEPT !.op = "Pairings.Export", !.resultPairings = p]
    /\ UNCHANGED <<pc, config, weeks, hist, hist0, date, date0, idToValidPairings,
                   weeklyPairings, weekVars, calls, args, configFile, historyFile, exitCode>>

CallNewPairingsFromFile ==
    /\ pc = "files"
    /\ LET r == NewPairingsFromFile(pairingsFile)
       IN  lastCall' = [NoCall EXCEPT !.op = "NewPairingsFromFile",
                                      !.resultPairings = r.pairings, !.err = r.err]
    /\ UNCHANGED <<pc, inputVars, hist, date, date0, idToValidPairings,
                   weeklyPairings, weekVars, calls>>

CallHistoryExport(h) ==
    /\ pc = "files"
    /\ historyFile' = HistoryExport(h)
    /\ lastCall' = [NoCall EXCEPT !.op = "History.Export", !.before = h]
    /\ UNCHANGED <<pc, config, weeks, hist, hist0, date, date0, idToValidPairings,
                   weeklyPairings, weekVars, calls, args, configFile, pairingsFile, exitCode>>

\* the reader is an open file: there is one to read
CallNewHistoryFromFile ==
    /\ pc = "files"
    /\ historyFile # NoFile
    /\ LET r == NewHistoryFromFile(historyFile)
       IN  /\ hist' = r.history
           /\ lastCall' = [NoCall EXCEPT !.op = "NewHistoryFromFile", !.before = hist,
                                         !.err = r.err]
    /\ UNCHANGED <<pc, inputVars, date, date0, idToValidPairings,
                   weeklyPairings, weekVars, calls>>

NextFiles ==
    \/ \E p \in PairingsValues : CallPairingsExport(p)
    \/ CallNewPairingsFromFile
    \/ \E h \in FileHistories : CallHistoryExport(h)
    \/ CallNewHistoryFromFile

InitFiles ==
    /\ pc = "files"
    /\ config = <<>>
    /\ weeks = 0
    /\ hist = NilHistory
    /\ hist0 = NilHistory
    /\ date = 0
    /\ date0 = 0
    /\ idToValidPairings = EmptyMap
    /\ weeklyPairings = <<>>
    /\ pairings = <<>>
    /\ alreadyPaired = {}
    /\ visited = {}
    /\ lastVisit = NoVisit
    /\ lastCall = NoCall
    /\ calls = 0
    /\ NoCommand

SpecFiles == InitFiles /\ [][NextFiles]_vars

\* -------------------------------------------------------------- the command
exitCodeSuccess == 0

exitCodeError == 1

exitCodeInvalidArguments == 2

\* a cadence value that is neither of the two constants nor unset
UnknownCadence == "three-weeks"

\* NewConfigFromFile when the decoded config is not validated
NewConfigFromFile_Unvalidated(file, closeErr) ==
    IF file.kind \notin {"json", "null"} THEN [config |-> <<>>, err |-> TRUE]
    ELSE IF closeErr THEN [config |-> <<>>, err |-> TRUE]
         ELSE [config |-> file.value, err |-> FALSE]

\* NewConfigFromFile: open, decode, validate, close; closeErr says whether
\* closing the file fails.  file.value is the "people" array (none for null).
NewConfigFromFile(file, closeErr) ==
    IF file.kind \notin {"json", "null"} THEN [config |-> <<>>, err |-> TRUE]
    ELSE IF validate(file.value) THEN [config |-> <<>>, err |-> TRUE]
         ELSE IF closeErr THEN [config |-> <<>>, err |-> TRUE]
              ELSE [config |-> file.value, err |-> FALSE]

\* getHistoryFromFile when a missing file is an error whatever allowMissing is
getHistoryFromFile_MissingIsError(file, allowMissing, closeErr) ==
    IF file.kind \in {"missing", "unreadable"} THEN [history |-> NilHistory, err |-> TRUE]
    ELSE LET r == NewHistoryFromFile(file)
         IN  IF r.err \/ closeErr THEN [history |-> NilHistory, err |-> TRUE] ELSE r

getHistoryFromFile(file, allowMissing, closeErr) ==
    IF file.kind = "missing"
    THEN [history |-> NilHistory, err |-> ~allowMissing]
    ELSE IF file.kind = "unreadable" THEN [history |-> NilHistory, err |-> TRUE]
         ELSE LET r == NewHistoryFromFile(file)
              IN  IF r.err \/ closeErr THEN [history |-> NilHistory, err |-> TRUE] ELSE r

\* writeHistoryToFile: every outcome [what the file holds afterwards, error]:
\* os.Create fails; the file is made and the write fails; the document is
\* written and closing fails; all three succeed
writeHistoryToFile(h, file) ==
    { [file |-> file, err |-> TRUE],
      [file |-> Garbage, err |-> TRUE],
      [file |-> HistoryExport(h), err |-> TRUE],
      [file |-> HistoryExport(h), err |-> FALSE] }

\* execute, lines 24-43: flags, config, history
ExecuteBegin ==
    /\ pc = "execute"
    /\ \E configCloseErr \in BOOLEAN, historyCloseErr \in BOOLEAN :
          LET c == NewConfigFromFile(configFile, configCloseErr)
              h == getHistoryFromFile(historyFile, TRUE, historyCloseErr)
          IN  IF args.parseErr
              THEN /\ exitCode' = <<exitCodeInvalidArguments>>
                   /\ pc' = "exit"
                   /\ UNCHANGED <<config, weeks, hist, hist0, lastCall>>
              ELSE IF c.err
                   THEN /\ exitCode' = <<exitCodeError>>
                        /\ pc' = "exit"
                        /\ lastCall' = [NoCall EXCEPT !.op = "NewConfigFromFile", !.err = TRUE,
                                           !.ioErr = ~NewConfigFromFile(configFile, FALSE).err]
                        /\ UNCHANGED <<config, weeks, hist, hist0>>
                   ELSE IF h.err
                        THEN /\ exitCode' = <<exitCodeError>>
                             /\ pc' = "exit"
                             /\ config' = c.config
                             /\ lastCall' = [NoCall EXCEPT !.op = "getHistoryFromFile", !.err = TRUE,
                                                !.ioErr = ~getHistoryFromFile(historyFile, TRUE, FALSE).err]
                             /\ UNCHANGED <<weeks, hist, hist0>>
                        ELSE /\ config' = c.config
                             /\ weeks' = args.weeks
                             /\ hist' = h.history
                             /\ hist0' = h.history
                             /\ lastCall' = [NoCall EXCEPT !.op = "getHistoryFromFile"]
                             /\ pc' = "start"
                             /\ UNCHANGED exitCode
    /\ UNCHANGED <<date, date0, idToValidPairings, weeklyPairings, weekVars, calls,
                   args, configFile, historyFile, pairingsFile>>

\* execute, lines 45-56: GeneratePairings has returned (its error is always
\* nil); the history is written back
ExecuteEnd ==
    /\ pc = "done"
    /\ \E w \in writeHistoryToFile(hist, historyFile) :
          /\ historyFile' = w.file
          /\ exitCode' = <<IF w.err THEN exitCodeError ELSE exitCodeSuccess>>
          /\ lastCall' = [NoCall EXCEPT !.op = "writeHistoryToFile", !.err = w.err, !.ioErr = w.err]
    /\ pc' = "exit"
    /\ UNCHANGED <<config, weeks, hist, hist0, date, date0, idToValidPairings, weeklyPairings,
                   weekVars, calls, args, configFile, pairingsFile>>

NextCommand ==
    \/ ExecuteBegin
    \/ Start
    \/ BeginWeek
    \/ \E id \in IDs : Visit(id)
    \/ EndWeek
    \/ Return
    \/ ExecuteEnd

\* command lines: one that flag parsing rejects, and -weeks 0 .. MaxWeeks
CommandLines ==
    {[parseErr |-> TRUE, weeks |-> 1]} \cup {[parseErr |-> FALSE, weeks |-> n] : n \in 0..MaxWeeks}

\* rosters where the last person's ID is that of the first
DuplicateRosters ==
    {Append(r, Person(1, {}, "", "")) : r \in CadenceRostersOfSize(SmallRoster - 1)}

\* rosters where the last person has an unknown cadence and denies nobody or
\* everybody
UnknownCadenceRosters ==
    {Append(r, Person(SmallRoster, deny, UnknownCadence, "")) :
        r \in CadenceRostersOfSize(SmallRoster - 1), deny \in {{}, 1..(SmallRoster - 1)}}

\* config files: none, one that does not decode, and the rosters
ConfigDocuments ==
    {NoFile, Garbage}
        \cup {JSON(r) : r \in CadenceRostersOfSize(SmallRoster) \cup DuplicateRosters
                                \cup UnknownCadenceRosters}

\* history files: none, one that cannot be opened, one that does not decode,
\* what earlier runs exported
HistoryDocuments ==
    {NoFile, Unreadable, Garbage, HistoryExport(NilHistory),
     HistoryExport(HistoryOf(<< <<1, 2, 3>>, <<1, 3, 0>> >>, 2))}

InitCommand ==
    /\ pc = "execute"
    /\ args \in CommandLines
    /\ configFile \in ConfigDocuments
    /\ historyFile \in HistoryDocuments
    /\ pairingsFile = NoFile
    /\ exitCode = <<>>
    /\ config = <<>>
    /\ weeks = 0
    /\ hist = NilHistory
    /\ hist0 = NilHistory
    /\ date = 0
    /\ date0 = 0
    /\ idToValidPairings = EmptyMap
    /\ weeklyPairings = <<>>
    /\ pairings = <<>>
    /\ alreadyPaired = {}
    /\ visited = {}
    /\ lastVisit = NoVisit
    /\ lastCall = NoCall
    /\ calls = 0

SpecCommand == InitCommand /\ [][NextCommand]_vars

\* ------------------------------------------------------ Config on its own
CallGetPerson(id) ==
    /\ pc = "config"
    /\ LET r == GetPerson(config, id)
       IN  lastCall' = [NoCall EXCEPT !.op = "GetPerson", !.person1 = id,
                                      !.resultPerson = r.person, !.err = r.err]
    /\ UNCHANGED <<pc, inputVars, hist, date, date0, idToValidPairings, weeklyPairings,
                   weekVars, calls>>

NextConfig == \E id \in AllIDs : CallGetPerson(id)

InitConfig ==
    /\ pc = "config"
    /\ config \in RostersOfSize(SmallRoster)
    /\ weeks = 0
    /\ hist = NilHistory
    /\ hist0 = NilHistory
    /\ date = 0
    /\ date0 = 0
    /\ idToValidPairings = EmptyMap
    /\ weeklyPairings = <<>>
    /\ pairings = <<>>
    /\ alreadyPaired = {}
    /\ visited = {}
    /\ lastVisit = NoVisit
    /\ lastCall = NoCall
    /\ calls = 0
    /\ NoCommand

SpecConfig == InitConfig /\ [][NextConfig]_vars

\* ================================================================== claims
\* the roster's IDs, and the valid-partner rule as the specification words it
RosterIDs == {config[i].id : i \in 1..Len(config)}

RuleAllows(A, B) ==
    /\ A \in RosterIDs
    /\ B \in RosterIDs
    /\ A # B
    /\ \A i, j \in 1..Len(config) :
          (config[i].id = A /\ config[j].id = B) =>
              /\ B \notin config[i].denyList
              /\ A \notin config[j].denyList
              /\ ~(config[i].squad # "" /\ config[i].squad = config[j].squad)

RuleValid(A) == {B \in RosterIDs : RuleAllows(A, B)}

\* the valid partners the graph lists for A
GraphValid(A) ==
    IF A \in DOMAIN idToValidPairings THEN Range(idToValidPairings[A]) ELSE {}

Count(s, x) == Cardinality({i \in 1..Len(s) : s[i] = x})

PartnersOf(h, A) == GetPersonToLastMeetingMap(h, A)

\* the date week k (1-based) of the run was matched at
WeekDate(k) == date0 + 7 * (k - 1)

IsOddWeek(t) == (ISOWeek(t).week % 2) = 1

\* the cadence the roster gives the person with this ID
CadenceOf(id) == config[CHOOSE i \in 1..Len(config) : config[i].id = id].cadence

IsTwoWeeks(id) == id \in RosterIDs /\ CadenceOf(id) = CadenceTwoWeeks

IsWeekly(id) == id \in RosterIDs /\ CadenceOf(id) \in {CadenceOneWeek, ""}

\* no ID occurs twice in a Pairing Set, counting both positions of every pair
NoDoubleBooking(prs) ==
    \A i, j \in 1..Len(prs) : \A a, b \in 1..2 :
        prs[i][a] = prs[j][b] => (i = j /\ a = b)

\* C1: no double-booking: in every Pairing Set pairPeople returned, no ID
\* occurs twice, counting both positions of every pair, whatever order the
\* persons were visited in.
C1_NoDoubleBooking ==
    \A k \in 1..Len(weeklyPairings) : NoDoubleBooking(weeklyPairings[k])

\* a week in which two pairs were formed
C1_Witness ==
    \E k \in 1..Len(weeklyPairings) : Len(weeklyPairings[k]) >= 2

\* every pair of a Pairing Set is allowed by the rule and listed in the graph
\* in both directions
PairsAllowed(prs) ==
    \A i \in 1..Len(prs) :
        /\ RuleAllows(prs[i][1], prs[i][2])
        /\ prs[i][2] \in GraphValid(prs[i][1])
        /\ prs[i][1] \in GraphValid(prs[i][2])

\* C2: exclusion correctness: every generated pair (A, B), of a finished week
\* or of the week in progress, has B not in A's deny list, A not in B's deny
\* list and no shared non-empty squad, and each is listed as a valid partner
\* of the other, whatever the initial history holds.  (weeklyPairings changes
\* only when a week ends, which leaves pc = "loop".)
C2_ExclusionCorrectness ==
    /\ pc = "pairing" => PairsAllowed(pairings)
    /\ pc = "loop" => \A k \in 1..Len(weeklyPairings) : PairsAllowed(weeklyPairings[k])

\* a pair whose initiator had, in the initial history, met someone they may
\* not be paired with
C2_Witness ==
    \E k \in 1..Len(weeklyPairings) : \E i \in 1..Len(weeklyPairings[k]) :
        LET A == weeklyPairings[k][i][1]
        IN  \E B \in DOMAIN PartnersOf(hist0, A) : ~RuleAllows(A, B)

\* the IDs that occur in a Pairing Set
IDsIn(prs) == UNION {{prs[i][1], prs[i][2]} : i \in 1..Len(prs)}

\* C3: cadence enforcement: no pair of a week matched at a date with an odd
\* ISO week number holds a person with two-weeks cadence, in either position;
\* a person with one-week or unset cadence is never excluded by cadence: such
\* a person is claimed only by being in a pair of the week.  (weeklyPairings
\* changes only when a week ends, which leaves pc = "loop".)
C3_CadenceEnforcement ==
    /\ pc = "loop" =>
          \A k \in 1..Len(weeklyPairings) :
              IsOddWeek(WeekDate(k)) =>
                  \A id \in IDsIn(weeklyPairings[k]) : ~IsTwoWeeks(id)
    /\ pc = "pairing" =>
          /\ IsOddWeek(date) => \A id \in IDsIn(pairings) : ~IsTwoWeeks(id)
          /\ \A id \in alreadyPaired : IsWeekly(id) => id \in IDsIn(pairings)

\* an odd week in which pairs were formed although a person with two-weeks
\* cadence has valid partners
C3_Witness ==
    \E k \in 1..Len(weeklyPairings) :
        /\ IsOddWeek(WeekDate(k))
        /\ weeklyPairings[k] # <<>>
        /\ \E id \in DOMAIN idToValidPairings : IsTwoWeeks(id)

\* C4: coverage over time: all cadences weekly, every valid-partner set
\* non-empty, empty initial history, at least 2 * (largest valid-partner set)
\* weeks: after the run everybody has met every one of their valid partners.
C4_CoverageOverTime ==
    ( /\ pc = "done"
      /\ hist0 = NilHistory
      /\ \A A \in RosterIDs :
            /\ RuleValid(A) # {}
            /\ IsWeekly(A)
            /\ weeks >= 2 * Cardinality(RuleValid(A)) )
    => \A A \in RosterIDs : RuleValid(A) \subseteq DOMAIN PartnersOf(hist, A)

\* C5: deterministic visitation: a call of pairPeople on the roster, graph,
\* history and date of the week can return one Pairing Set only.
C5_DeterministicVisitation ==
    pc = "pairing" =>
        Cardinality(pairPeople(config, idToValidPairings, hist, date)) = 1

\* the position of x in the slice s
PosIn(s, x) == CHOOSE i \in 1..Len(s) : s[i] = x

\* C6: recency-ordered choice: when an unclaimed person A is visited, the
\* candidate order lists exactly A's valid partners, each once: first those
\* with no entry in A's history, in the order of the valid-pair list, then
\* those with one, by ascending timestamp; the recorded partner is the first
\* unclaimed candidate; so a previously met partner is chosen only when every
\* never-met valid partner is claimed, and has the least timestamp among the
\* unclaimed ones.
C6_RecencyOrderedChoice ==
    (pc = "pairing" /\ lastVisit.id \in IDs /\ ~lastVisit.skipped) =>
        LET A == lastVisit.id
            c == lastVisit.candidates
            claimed == lastVisit.claimed
            m == PartnersOf(hist, A)
        IN  /\ \A i, j \in 1..Len(c) : c[i] = c[j] => i = j
            /\ Range(c) = RuleValid(A)
            /\ \A i, j \in 1..Len(c) : i < j =>
                  /\ c[j] \notin DOMAIN m => c[i] \notin DOMAIN m
                  /\ (c[i] \notin DOMAIN m /\ c[j] \notin DOMAIN m) =>
                        PosIn(idToValidPairings[A], c[i]) < PosIn(idToValidPairings[A], c[j])
                  /\ (c[i] \in DOMAIN m /\ c[j] \in DOMAIN m) => m[c[i]] <= m[c[j]]
            /\ lastVisit.paired <=> (\E i \in 1..Len(c) : c[i] \notin claimed)
            /\ lastVisit.paired =>
                  /\ \E i \in 1..Len(c) :
                        /\ c[i] = lastVisit.partner
                        /\ c[i] \notin claimed
                        /\ \A j \in 1..(i - 1) : c[j] \in claimed
                  /\ pairings # <<>>
                  /\ pairings[Len(pairings)] = <<A, lastVisit.partner>>
            /\ (lastVisit.paired /\ lastVisit.partner \in DOMAIN m) =>
                  \A B \in RuleValid(A) :
                      /\ B \notin DOMAIN m => B \in claimed
                      /\ (B \in DOMAIN m /\ B \notin claimed) => m[lastVisit.partner] <= m[B]

\* a person paired with a previously met partner while another, more recently
\* met valid partner was still unclaimed
C6_Witness ==
    /\ pc = "pairing"
    /\ lastVisit.id \in IDs
    /\ lastVisit.paired
    /\ LET m == PartnersOf(hist, lastVisit.id)
       IN  /\ lastVisit.partner \in DOMAIN m
           /\ \E B \in Range(lastVisit.candidates) \ lastVisit.claimed :
                 B \in DOMAIN m /\ m[B] > m[lastVisit.partner]

\* C7: symmetry of the valid-pair graph: B is listed for A exactly when A is
\* listed for B.
C7_GraphSymmetry ==
    pc # "start" =>
        \A A, B \in IDs : (B \in GraphValid(A)) <=> (A \in GraphValid(B))

\* a graph built from a roster where A denies B and B does not deny A
C7_Witness ==
    /\ pc # "start"
    /\ \E i, j \in 1..Len(config) :
          /\ config[j].id \in config[i].denyList
          /\ config[i].id \notin config[j].denyList
          /\ config[i].squad = ""

\* the list the graph holds for P, empty when P has no key
ListOf(P) == IF P \in DOMAIN idToValidPairings THEN idToValidPairings[P] ELSE <<>>

\* C8: valid-pair rule: Q is listed exactly once among P's valid partners if
\* and only if neither denies the other and they share no non-empty squad; a
\* person with no valid partner has no key in the graph.
C8_ValidPairRule ==
    pc # "start" =>
        /\ \A P, Q \in RosterIDs :
              P # Q => ((Count(ListOf(P), Q) = 1) <=> RuleAllows(P, Q))
        /\ \A P \in RosterIDs : RuleValid(P) = {} => P \notin DOMAIN idToValidPairings

\* a graph where one person has no key and two persons of different squads
\* are valid partners
C8_Witness ==
    /\ pc # "start"
    /\ \E P \in RosterIDs : P \notin DOMAIN idToValidPairings
    /\ \E i, j \in 1..Len(config) :
          /\ config[i].squad = "bros" /\ config[j].squad = "koopas"
          /\ config[j].id \in GraphValid(config[i].id)

\* C9: AddMeeting postcondition: right after AddMeeting(A, B, t) the partner
\* map of A maps B to t and the partner map of B maps A to t.
C9_AddMeetingPostcondition ==
    lastCall.op = "AddMeeting" =>
        LET A == lastCall.person1
            B == lastCall.person2
        IN  /\ B \in DOMAIN PartnersOf(hist, A)
            /\ PartnersOf(hist, A)[B] = lastCall.meetingTime
            /\ A \in DOMAIN PartnersOf(hist, B)
            /\ PartnersOf(hist, B)[A] = lastCall.meetingTime

\* AddMeeting of two different persons on a nil history
C9_Witness ==
    /\ lastCall.op = "AddMeeting"
    /\ lastCall.before.isNil
    /\ lastCall.person1 # lastCall.person2

\* every entry of the history has its mirror entry with the same time
Symmetric(h) ==
    \A A \in DOMAIN h.data : \A B \in DOMAIN h.data[A] :
        /\ B \in DOMAIN h.data
        /\ A \in DOMAIN h.data[B]
        /\ h.data[B][A] = h.data[A][B]

\* C10: history symmetry: after any sequence of AddMeeting calls on an empty
\* or symmetric history, every entry History[A][B] = t has its mirror entry
\* History[B][A] = t.
C10_HistorySymmetry == Symmetric(hist)

\* an AddMeeting that overwrote the time of a pair that had met before
C10_Witness ==
    /\ lastCall.op = "AddMeeting"
    /\ lastCall.person1 # lastCall.person2
    /\ lastCall.person2 \in DOMAIN PartnersOf(lastCall.before, lastCall.person1)
    /\ PartnersOf(lastCall.before, lastCall.person1)[lastCall.person2] # lastCall.meetingTime

\* the entries History[A][B] of a history, as a set of pairs
Entries(h) == {<<A, B>> \in AllIDs \X AllIDs : B \in DOMAIN PartnersOf(h, A)}

IsQuery(op) == op \in {"GetPersonToLastMeetingMap", "GetPeopleMetSortedByLastMeeting"}

\* C11: history never forgets: AddMeeting(A, B, t) changes the entries
\* History[A][B] and History[B][A] only, every other entry keeps its value and
\* no other entry appears; the queries change nothing; no entry the history
\* started with is ever removed.
C11_HistoryNeverForgets ==
    /\ Entries(hist0) \subseteq Entries(hist)
    /\ IsQuery(lastCall.op) => hist = lastCall.before
    /\ lastCall.op = "AddMeeting" =>
          LET A == lastCall.person1
              B == lastCall.person2
              touched == {<<A, B>>, <<B, A>>}
          IN  /\ Entries(hist) = Entries(lastCall.before) \cup touched
              /\ \A e \in Entries(lastCall.before) \ touched :
                    PartnersOf(hist, e[1])[e[2]] = PartnersOf(lastCall.before, e[1])[e[2]]

\* AddMeeting for a person who had an entry with somebody else
C11_Witness ==
    /\ lastCall.op = "AddMeeting"
    /\ lastCall.person1 # lastCall.person2
    /\ \E C \in DOMAIN PartnersOf(lastCall.before, lastCall.person1) :
          C \notin {lastCall.person1, lastCall.person2}

\* C12: monotone timestamps: the time stored for a pair never decreases:
\* after AddMeeting, every entry is greater than or equal to its value before.
C12_MonotoneTimestamps ==
    lastCall.op = "AddMeeting" =>
        \A e \in Entries(lastCall.before) :
            PartnersOf(hist, e[1])[e[2]] >= PartnersOf(lastCall.before, e[1])[e[2]]

\* C13: recency sort: GetPeopleMetSortedByLastMeeting returns every partner in
\* the person's history exactly once and nobody else, with non-decreasing
\* last-meeting times along the list, for every order the map is ranged in.
C13_RecencySort ==
    lastCall.op = "GetPeopleMetSortedByLastMeeting" =>
        LET r == lastCall.resultSlice
            m == PartnersOf(lastCall.before, lastCall.person1)
        IN  /\ Range(r) = DOMAIN m
            /\ Len(r) = Cardinality(DOMAIN m)
            /\ \A i, j \in 1..Len(r) : i < j => m[r[i]] <= m[r[j]]

\* a sorted list of three or more partners whose order by time is not the order
\* of their IDs
C13_Witness ==
    /\ lastCall.op = "GetPeopleMetSortedByLastMeeting"
    /\ Len(lastCall.resultSlice) >= 3
    /\ LET r == lastCall.resultSlice
           m == PartnersOf(lastCall.before, lastCall.person1)
       IN  r[1] > r[2] /\ m[r[1]] < m[r[2]]

\* C14: unknown ID is not a failure: a query for an ID with no history entry,
\* also on a never-initialised history, returns an empty result and leaves the
\* history as it was, with no key made for the ID.
C14_UnknownIDNotAFailure ==
    (IsQuery(lastCall.op) /\ lastCall.person1 \notin DOMAIN lastCall.before.data) =>
        /\ lastCall.resultMap = EmptyMap
        /\ lastCall.resultSlice = <<>>
        /\ hist = lastCall.before
        /\ lastCall.person1 \notin DOMAIN hist.data

\* a query for an ID of a never-initialised history
C14_Witness ==
    /\ IsQuery(lastCall.op)
    /\ lastCall.before.isNil
    /\ hist.isNil

\* the IDs that some valid-partner list of the graph holds
Listed == UNION {Range(idToValidPairings[A]) : A \in DOMAIN idToValidPairings}

\* C15: people removed from the roster are never paired: an ID that is in no
\* valid-partner list is in no pair of the Pairing Set of any week, whatever
\* meetings with that ID the history records.  (weeklyPairings changes only
\* when a week ends, which leaves pc = "loop".)
C15_RemovedNeverPaired ==
    pc = "loop" => \A k \in 1..Len(weeklyPairings) : IDsIn(weeklyPairings[k]) \subseteq Listed

\* two weeks, each with a pair of a person for whom the initial history
\* records a meeting with the removed person, the only one of that person
C15_Witness ==
    /\ Len(weeklyPairings) = 2
    /\ Removed \notin Listed
    /\ \A k \in 1..2 : \E A \in IDsIn(weeklyPairings[k]) :
          DOMAIN PartnersOf(hist0, A) = {Removed}

\* C16: empty valid set is never paired: a person whose valid-partner set is
\* empty by the rule is in no pair of the Pairing Set of any week, for any
\* initial history.  (weeklyPairings changes only when a week ends, which
\* leaves pc = "loop".)
C16_EmptyValidSetNeverPaired ==
    (pc = "loop" /\ weeklyPairings # <<>>) =>
        LET unpairable == {A \in RosterIDs : RuleValid(A) = {}}
        IN  \A k \in 1..Len(weeklyPairings) : IDsIn(weeklyPairings[k]) \cap unpairable = {}

\* a finished week with a pair, while a person of the roster has no valid
\* partner and the initial history records a meeting of that person with one
\* of the paired
C16_Witness ==
    \E k \in 1..Len(weeklyPairings) : \E A \in RosterIDs :
        /\ RuleValid(A) = {}
        /\ DOMAIN PartnersOf(hist0, A) \cap IDsIn(weeklyPairings[k]) # {}

\* the pair <<A, B>> is in the history, in both directions, with a time t or
\* later
Recorded(h, pr, t) ==
    /\ pr[2] \in DOMAIN PartnersOf(h, pr[1])
    /\ pr[1] \in DOMAIN PartnersOf(h, pr[2])
    /\ PartnersOf(h, pr[1])[pr[2]] >= t
    /\ PartnersOf(h, pr[2])[pr[1]] = PartnersOf(h, pr[1])[pr[2]]

\* what holds of the week loop at every point of a run: the weeks finished so
\* far are no more than asked for; the date is start + 7 days per finished
\* week; every pair of a finished week is in the history with the date of that
\* week or of a later week, and every pair of the latest finished week with
\* the date of that week exactly
WeekLoopInvariant ==
    pc \in {"loop", "pairing", "done"} =>
        LET n == Len(weeklyPairings)
        IN  /\ n <= weeks
            /\ pc = "pairing" => n < weeks
            /\ pc = "done" => n = weeks
            /\ date = date0 + 7 * n
            /\ \A k \in 1..n : \A i \in 1..Len(weeklyPairings[k]) :
                  /\ Recorded(hist, weeklyPairings[k][i], WeekDate(k))
                  /\ k = n => PartnersOf(hist, weeklyPairings[k][i][1])[weeklyPairings[k][i][2]]
                                  = WeekDate(k)

\* a step only ever appends one Pairing Set to the ones returned so far
WeekOrderKept ==
    \/ weeklyPairings' = weeklyPairings
    \/ \E prs \in {pairings} : weeklyPairings' = Append(weeklyPairings, prs)

\* C17: week loop of GeneratePairings: the run terminates and returns exactly
\* `weeks` Pairing Sets in week order; week k (0-based) is matched at date
\* start + 7k days against a history that holds every pair of the weeks
\* before, and every pair of week k is in the history with the time
\* start + 7k days before the next week is matched.
C17_WeekLoop ==
    /\ []WeekLoopInvariant
    /\ [][WeekOrderKept]_vars
    /\ <>(pc = "done")

\* a finished run of two weeks on a history file that held meetings, with a
\* pair in each week
C17_Witness ==
    /\ pc = "done"
    /\ Len(weeklyPairings) = 2
    /\ weeklyPairings[1] # <<>>
    /\ weeklyPairings[2] # <<>>
    /\ ~hist0.isNil

\* a step of pairPeople leaves the history as it is; the history changes only
\* when pairPeople has returned, by the AddMeeting calls for the week's pairs
HistoryOnlyReadByMatcher ==
    /\ (pc = "pairing" /\ pc' = "pairing") => hist' = hist
    /\ (pc = "loop" /\ pc' \in {"pairing", "fatal"}) => hist' = hist
    /\ hist' # hist =>
          /\ pc = "pairing"
          /\ pc' = "loop"
          /\ visited = DOMAIN idToValidPairings
          /\ hist' = AddMeetings(hist, pairings, 1, date)

\* C18: the matcher only reads the history: no step of a call of pairPeople
\* adds, removes or overwrites a history entry, so all pairs of a week are
\* chosen against the same history; the history changes only through the
\* AddMeeting calls made once the week's Pairing Set is complete.
C18_MatcherOnlyReads == [][HistoryOnlyReadByMatcher]_vars

\* the matcher has formed a pair of two persons whose earlier meeting the
\* history still holds with its old time, and has gone on to visit another key
C18_Witness ==
    /\ pc = "pairing"
    /\ pairings # <<>>
    /\ lastVisit.id \in IDs
    /\ lastVisit.id \notin IDsIn(pairings)
    /\ \E i \in 1..Len(pairings) :
          /\ pairings[i][2] \in DOMAIN PartnersOf(hist, pairings[i][1])
          /\ PartnersOf(hist, pairings[i][1])[pairings[i][2]] < date

\* of any two consecutive weeks of the run, the two-weeks cadence is eligible
\* in exactly one (the test getIneligiblePeople applies at the week's date)
EligibleEverySecondWeek ==
    pc = "loop" =>
        \A k \in 1..(Len(weeklyPairings) - 1) :
            isValidWeekForTwoWeekCadence(WeekDate(k))
                # isValidWeekForTwoWeekCadence(WeekDate(k + 1))

\* no person with two-weeks cadence is paired in two consecutive weeks
NotPairedInConsecutiveWeeks ==
    pc = "loop" =>
        \A k \in 1..(Len(weeklyPairings) - 1) :
            \A id \in IDsIn(weeklyPairings[k]) \cap IDsIn(weeklyPairings[k + 1]) :
                ~IsTwoWeeks(id)

\* C19: two-week cadence means every second week: in a run over consecutive
\* weeks, also across a year boundary, a person with two-weeks cadence is
\* eligible in exactly every second week and is never paired in two
\* consecutive weeks.
C19_EverySecondWeek ==
    /\ EligibleEverySecondWeek
    /\ NotPairedInConsecutiveWeeks

\* the valid pairs of the graph as two-element sets, the sets of pairwise
\* disjoint valid pairs, and the size of a largest one
Edges == UNION {{{A, B} : B \in GraphValid(A)} : A \in DOMAIN idToValidPairings}

Matchings == {M \in SUBSET Edges : \A e, f \in M : e # f => e \cap f = {}}

MaxMatchingSize ==
    CHOOSE n \in 0..Cardinality(Edges) :
        /\ \E M \in Matchings : Cardinality(M) = n
        /\ \A M \in Matchings : Cardinality(M) <= n

\* a finished call of pairPeople on an empty history with everybody eligible
FirstCallOnEmptyHistory ==
    /\ pc = "loop"
    /\ Len(weeklyPairings) = 1
    /\ weeklyPairings[1] # <<>>
    /\ hist0 = NilHistory
    /\ \A id \in RosterIDs : IsWeekly(id)

\* person c initiated the first pair of the call (so c was the first key of
\* the range), the first entry a of c's valid list has another valid partner
\* x, person p has c as only valid partner, and everybody else has valid
\* partners among c, a and p only
Collision(c, a, p, x) ==
    /\ weeklyPairings[1][1][1] = c
    /\ ListOf(c) # <<>>
    /\ Head(ListOf(c)) = a
    /\ p # a
    /\ ListOf(p) = <<c>>
    /\ x \in GraphValid(a) \ {c}
    /\ \A z \in RosterIDs \ {c, a, p} : GraphValid(z) \subseteq {c, a, p}

\* C20: greedy, not maximum: there are a roster, a history and a visitation
\* order for which pairPeople returns fewer pairs than a maximum matching of
\* the valid-pair graph has: whenever the visitation order starts with a
\* person whose first candidate is wanted elsewhere while a person who has
\* nobody else is left over, pairable people stay unmatched.
C20_GreedyNotMaximum ==
    FirstCallOnEmptyHistory =>
        \A c, a, p, x \in IDs :
            Collision(c, a, p, x) => Len(weeklyPairings[1]) < MaxMatchingSize

\* such a call: one pair returned where two disjoint valid pairs exist
C20_Witness ==
    /\ FirstCallOnEmptyHistory
    /\ \E c, a, p, x \in IDs : Collision(c, a, p, x)
    /\ Len(weeklyPairings[1]) = 1
    /\ MaxMatchingSize = 2

\* an ID occurs twice among the people
HasDuplicateIDs(people) ==
    \E i, j \in 1..Len(people) : i # j /\ people[i].id = people[j].id

\* the config file decodes to a roster in which an ID occurs twice
DuplicateIDsInFile == configFile.kind = "json" /\ HasDuplicateIDs(configFile.value)

\* loading that file returns an error and the zero Config
LoadOfDuplicatesFails ==
    DuplicateIDsInFile =>
        \A closeErr \in BOOLEAN :
            NewConfigFromFile(configFile, closeErr) = [config |-> <<>>, err |-> TRUE]

\* the command on that file goes from its start straight to its exit, with
\* the generic failure status, no roster, no graph and no pair
DuplicatesStopTheCommand ==
    (DuplicateIDsInFile /\ ~args.parseErr) =>
        /\ pc \in {"execute", "exit"}
        /\ pc = "exit" => exitCode = <<exitCodeError>>
        /\ config = <<>>
        /\ idToValidPairings = EmptyMap
        /\ weeklyPairings = <<>>
        /\ pairings = <<>>
        /\ hist = NilHistory

\* no step of the command on that file writes the history file
DuplicatesKeepHistoryFile == DuplicateIDsInFile => historyFile' = historyFile

\* C21: duplicate IDs are a configuration error: loading a roster in which two
\* persons have the same ID returns an error and no roster; the command then
\* stops with the generic failure status before any pairing is generated and
\* before the history file is written.
C21_DuplicateIDsAreAnError ==
    /\ [](LoadOfDuplicatesFails /\ DuplicatesStopTheCommand)
    /\ [][DuplicatesKeepHistoryFile]_vars

\* the command has exited with status 1 on a config file with a duplicate ID,
\* next to a history file that holds meetings
C21_Witness ==
    /\ DuplicateIDsInFile
    /\ pc = "exit"
    /\ exitCode = <<exitCodeError>>
    /\ historyFile.kind = "json"
    /\ historyFile.value # <<>>

\* a person of the roster has a cadence that is no constant and not unset
HasUnknownCadence ==
    \E i \in 1..Len(config) : config[i].cadence \notin {CadenceOneWeek, CadenceTwoWeeks, ""}

\* C22: unrecognized cadence is fatal and never reaches the matcher: on a
\* roster with such a person a run of at least one week goes from the graph to
\* the fatal abort of the eligibility filter; the range loop of pairPeople is
\* never entered, no pair is formed and no Pairing Set is returned.
C22_UnknownCadenceIsFatal ==
    (HasUnknownCadence /\ weeks >= 1 /\ pc # "exit") =>
        /\ pc \in {"start", "loop", "fatal"}
        /\ pairings = <<>>
        /\ weeklyPairings = <<>>

\* a key of the graph is not found in the roster
LookupFails ==
    \E id \in DOMAIN idToValidPairings : \A i \in 1..Len(config) : config[i].id # id

\* C23: lookup errors cannot occur on validated input: on a roster with
\* unique IDs every key of the valid-pair graph is the ID of a person of the
\* roster and Config.GetPerson finds it without error, so when a run is in the
\* fatal abort state it is for a cadence of a key, never for a failed lookup.
C23_LookupNeverFails ==
    /\ ~LookupFails
    /\ \A id \in DOMAIN idToValidPairings : ~GetPerson(config, id).err
    /\ pc = "fatal" =>
          \E id \in DOMAIN idToValidPairings :
              GetPerson(config, id).person.cadence = UnknownCadence

\* a run on a roster with unique IDs has aborted in the eligibility filter
\* although every key of its graph, more than one, is found
C23_Witness ==
    /\ pc = "fatal"
    /\ ~HasDuplicateIDs(config)
    /\ Cardinality(DOMAIN idToValidPairings) >= 2
    /\ \A id \in DOMAIN idToValidPairings : ~GetPerson(config, id).err

\* what the latest call of Config.GetPerson returned, against the roster
GetPersonContract ==
    lastCall.op = "GetPerson" =>
        LET id == lastCall.person1
            holders == {i \in 1..Len(config) : config[i].id = id}
        IN  IF holders # {}
            THEN /\ ~lastCall.err
                 /\ lastCall.resultPerson.id = id
                 /\ \E i \in holders : lastCall.resultPerson = config[i]
            ELSE /\ lastCall.err
                 /\ lastCall.resultPerson = NoPerson

RosterKept == config' = config

\* C24: Config.GetPerson(id) returns the roster's person record with that ID
\* and no error when one exists, and an error with an empty person when no
\* person of the roster has that ID; it never changes the roster.
C24_GetPersonContract ==
    /\ []GetPersonContract
    /\ [][RosterKept]_vars

\* a call that found a person other than the first of the roster, with a
\* deny list, after which the roster still holds that person
C24_Witness ==
    /\ lastCall.op = "GetPerson"
    /\ ~lastCall.err
    /\ lastCall.resultPerson.denyList # {}
    /\ lastCall.resultPerson # config[1]
    /\ \E i \in 2..Len(config) : config[i] = lastCall.resultPerson

ConfigFileIsBad ==
    \/ configFile.kind \notin {"json", "null"}
    \/ HasDuplicateIDs(configFile.value)

HistoryFileIsBad == historyFile.kind \in {"unreadable", "garbage"}

\* what execute has returned, against the command line, the files and the
\* failures of the file system (lastCall.ioErr: closing a file that was read,
\* or creating, writing or closing the file that is written)
ExitStatusIsRight ==
    pc = "exit" =>
        /\ exitCode = <<exitCodeInvalidArguments>> <=> args.parseErr
        /\ exitCode = <<exitCodeError>> <=>
              /\ ~args.parseErr
              /\ \/ ConfigFileIsBad
                 \/ lastCall.ioErr
                 \/ (lastCall.op # "writeHistoryToFile" /\ HistoryFileIsBad)
        /\ exitCode = <<exitCodeSuccess>> <=>
              /\ ~args.parseErr
              /\ lastCall.op = "writeHistoryToFile"
              /\ ~lastCall.ioErr
        /\ exitCode = <<exitCodeSuccess>> =>
              /\ Len(weeklyPairings) = weeks
              /\ historyFile = HistoryExport(hist)

\* while GeneratePairings runs the history file is the one that was read: a
\* missing one has given the empty history
MissingHistoryIsEmpty ==
    (pc \in {"start", "loop", "pairing", "done", "fatal"} /\ historyFile = NoFile) =>
        hist0 = NilHistory

\* the history file changes only in the step from the return of
\* GeneratePairings, with all the weeks asked for, to the exit
HistoryWrittenLast ==
    historyFile' # historyFile =>
        /\ pc = "done"
        /\ pc' = "exit"
        /\ Len(weeklyPairings) = weeks

\* C26: command outcomes: execute returns 2 exactly when flag parsing fails,
\* 1 when loading the roster, loading the history or writing the history
\* fails (GeneratePairings returns no error), and 0 otherwise; a missing
\* history file is treated as an empty history; the history file is written
\* only after pairing generation has completed.
C26_CommandOutcomes ==
    /\ [](ExitStatusIsRight /\ MissingHistoryIsEmpty)
    /\ [][HistoryWrittenLast]_vars

\* the command has succeeded without a history file to start from and has
\* written one that holds the meetings of two weeks
C26_Witness ==
    /\ pc = "exit"
    /\ exitCode = <<exitCodeSuccess>>
    /\ hist0 = NilHistory
    /\ Len(weeklyPairings) = 2
    /\ weeklyPairings[2] # <<>>
    /\ historyFile.kind = "json"
    /\ historyFile = HistoryExport(hist)

\* the candidate orders getOrderedPossiblePairings can give a person on the
\* history of the week, one per slice the history can return for the person
CandidateOrders(id) ==
    {getOrderedPossiblePairings(idToValidPairings[id], prev) :
        prev \in GetPeopleMetSortedByLastMeeting(hist, id)}

\* the Pairing Sets pairPeople can return when its range loop yields the keys
\* of the graph in this order
OutputsFor(order) ==
    PairLoop(idToValidPairings, hist, order, 1,
             [pairings |-> <<>>,
              alreadyPaired |-> getIneligiblePeople(config, idToValidPairings, date).ineligible])

CandidateOrderUnique ==
    pc = "pairing" =>
        \A id \in DOMAIN idToValidPairings : Cardinality(CandidateOrders(id)) = 1

OutputUniqueForOrder ==
    pc = "pairing" =>
        \A order \in Orders(DOMAIN idToValidPairings) : Cardinality(OutputsFor(order)) = 1

\* C27: determinism modulo visitation order: for a fixed order in which the
\* persons are visited the Pairing Set pairPeople returns is determined by
\* roster, graph, history and date; each person's candidate order is
\* determined, also when the person's history holds several partners with
\* equal timestamps.
C27_DeterminismForFixedOrder ==
    /\ CandidateOrderUnique
    /\ OutputUniqueForOrder

\* the least average the test accepts when the average did not increase
minimumAvgDaysSinceMeeting == 14

\* the history after week k of the run
RECURSIVE HistoryAfterWeek(_)
HistoryAfterWeek(k) ==
    IF k = 0 THEN hist0
    ELSE AddMeetings(HistoryAfterWeek(k - 1), weeklyPairings[k], 1, WeekDate(k))

\* the days from the meetings of the entries E of h to the day t, summed
RECURSIVE TotalDaysSince(_, _, _)
TotalDaysSince(h, t, E) ==
    IF E = {} THEN 0
    ELSE LET e == CHOOSE x \in E : TRUE
         IN  (t - h.data[e[1]][e[2]]) + TotalDaysSince(h, t, E \ {e})

\* calculateAverageDaysSinceMeeting after week k as the fraction days / count
\* (0 / 1 when the history has no entry)
AverageAfterWeek(k) ==
    LET h == HistoryAfterWeek(k)
        n == Cardinality(Entries(h))
    IN  [days |-> TotalDaysSince(h, WeekDate(k), Entries(h)),
         count |-> IF n = 0 THEN 1 ELSE n]

AverageIncreasesOrIsMinimum(k) ==
    LET now == AverageAfterWeek(k)
        last == AverageAfterWeek(k - 1)
    IN  \/ now.days * last.count > last.days * now.count
        \/ now.days >= minimumAvgDaysSinceMeeting * now.count

\* C28: average time since meeting increases or exceeds the minimum: in a
\* week-by-week run from an empty history, after each week's pairs are
\* recorded, the average number of days since the last meeting over all
\* history entries is strictly greater than the average after the week before
\* or at least 14 days.
C28_AverageIncreasesOrIsMinimum ==
    (pc = "loop" /\ hist0 = NilHistory) =>
        \A k \in 2..Len(weeklyPairings) : AverageIncreasesOrIsMinimum(k)

\* the persons the cadence rule keeps out of the week matched at the day t
IneligibleAt(t) == {id \in RosterIDs : IsTwoWeeks(id) /\ IsOddWeek(t)}

\* for the Pairing Set prs of a week matched at the day t: no two persons are
\* eligible, unpaired and valid partners of each other, and each unpaired
\* eligible person has none but ineligible or paired valid partners
MaximalAt(prs, t) ==
    LET paired == IDsIn(prs)
        free == RosterIDs \ (paired \cup IneligibleAt(t))
    IN  /\ \A A \in free : \A B \in free : ~(RuleAllows(A, B) /\ RuleAllows(B, A))
        /\ \A A \in free : RuleValid(A) \subseteq (paired \cup IneligibleAt(t))

\* C29: maximal matching: when pairPeople returns, no two persons are both
\* eligible this week, both in no pair of the returned Pairing Set, and valid
\* partners of each other; a person is left unpaired only if every one of
\* their valid partners is ineligible or paired; for every visitation order
\* and every history.
C29_MaximalMatching ==
    (pc = "loop" /\ weeklyPairings # <<>>) =>
        \A k \in 1..Len(weeklyPairings) : MaximalAt(weeklyPairings[k], WeekDate(k))

\* pairPeople has returned and left unpaired an eligible person that has valid
\* partners and has met them all before
C29_Witness ==
    /\ pc = "loop"
    /\ Len(weeklyPairings) = 1
    /\ weeklyPairings[1] # <<>>
    /\ \E A \in RosterIDs \ (IDsIn(weeklyPairings[1]) \cup IneligibleAt(WeekDate(1))) :
          /\ RuleValid(A) # {}
          /\ RuleValid(A) \subseteq DOMAIN PartnersOf(hist0, A)

\* C30: no self-pairing: on a roster with unique IDs no person is listed as a
\* valid partner of themselves, and no Pairing Set of a run, finished or in
\* progress, holds a pair (A, A), also when the initial history holds an
\* entry History[A][A].
C30_NoSelfPairing ==
    /\ \A A \in DOMAIN idToValidPairings : A \notin GraphValid(A)
    /\ \A i \in 1..Len(pairings) : pairings[i][1] # pairings[i][2]
    /\ \A k \in 1..Len(weeklyPairings) : \A i \in 1..Len(weeklyPairings[k]) :
          weeklyPairings[k][i][1] # weeklyPairings[k][i][2]

\* a person whom the initial history records as having met themselves has
\* been visited with that entry in the slice the history returned, and has
\* formed a pair in each of two weeks
C30_Witness ==
    /\ Len(weeklyPairings) = 2
    /\ \E A \in RosterIDs :
          /\ A \in DOMAIN PartnersOf(hist0, A)
          /\ \A k \in 1..2 : \E i \in 1..Len(weeklyPairings[k]) : weeklyPairings[k][i][1] = A

\* the weeks of the run in which A and B were a pair, in either order
WeeksPaired(A, B) ==
    {k \in 1..Len(weeklyPairings) :
        \E i \in 1..Len(weeklyPairings[k]) :
            weeklyPairings[k][i] \in {<<A, B>>, <<B, A>>}}

\* the greatest element of a non-empty set of numbers
Latest(S) == CHOOSE k \in S : \A j \in S : j <= k

\* C31: history reflects exactly the generated pairs: after a run of
\* GeneratePairings started on an empty history, History[A][B] exists if and
\* only if (A, B) or (B, A) was a pair of some week; its value is the date of
\* the latest such week; A and B are valid partners of each other; and within
\* one person's partner map all timestamps are pairwise distinct.
C31_HistoryIsThePairs ==
    (pc = "done" /\ hist0 = NilHistory) =>
        \A A \in AllIDs :
            LET met == PartnersOf(hist, A)
            IN  \A B \in AllIDs :
                    LET ks == WeeksPaired(A, B)
                    IN  /\ B \in DOMAIN met <=> ks # {}
                        /\ B \in DOMAIN met =>
                              /\ met[B] = WeekDate(Latest(ks))
                              /\ RuleAllows(A, B)
                              /\ RuleAllows(B, A)
                              /\ \A C \in DOMAIN met : C # B => met[C] # met[B]

\* a finished run of two weeks from an empty history in which a pair met in
\* both weeks, so that its entries carry the date of the second week
C31_Witness ==
    /\ pc = "done"
    /\ hist0 = NilHistory
    /\ Len(weeklyPairings) = 2
    /\ \E A \in RosterIDs : \E B \in RosterIDs :
          /\ WeeksPaired(A, B) = {1, 2}
          /\ PartnersOf(hist, A)[B] = date0 + 7
          /\ PartnersOf(hist, B)[A] = date0 + 7

\* a run that has aborted did so in the eligibility filter of its first week:
\* no week is finished, the date was not advanced, no meeting was added
AbortIsInFirstWeek ==
    pc = "fatal" =>
        /\ weeklyPairings = <<>>
        /\ date = date0
        /\ hist = hist0

\* once a week is finished the eligibility filter of no later week of the run
\* aborts
NoAbortAfterAWeek ==
    (pc \in {"loop", "pairing", "done"} /\ Len(weeklyPairings) >= 1) =>
        \A k \in 1..weeks :
            ~getIneligiblePeople(config, idToValidPairings, WeekDate(k)).fatal

\* a run that returns has formed the pairings of all its weeks
ReturnIsAfterAllWeeks ==
    pc = "done" => Len(weeklyPairings) = weeks

\* a step into the abort leaves the first eligibility filter, before any
\* meeting of the run is in the history
AbortStep ==
    (pc # "fatal" /\ pc' = "fatal") =>
        /\ pc = "loop"
        /\ weeklyPairings = <<>>
        /\ hist = hist0
        /\ hist' = hist0

\* C32: all-or-nothing abort: a run of GeneratePairings either aborts in the
\* eligibility filter of the first week, with the history still equal to the
\* initial history, or completes all its weeks; the fatal conditions never
\* fire for the first time in the second or a later week, after a meeting has
\* been added.
C32_AllOrNothingAbort ==
    /\ [](AbortIsInFirstWeek /\ NoAbortAfterAWeek /\ ReturnIsAfterAllWeeks)
    /\ [][AbortStep]_vars

\* a run of two weeks on a history file with meetings has aborted
C32_Witness ==
    /\ pc = "fatal"
    /\ weeks >= 2
    /\ hist0 # NilHistory
    /\ Entries(hist0) # {}
    /\ HasUnknownCadence

====
